---- MODULE Spec2Model ----
(***************************************************************************)
(* PageRecommender: the persistence store (simple_db_manager.py), the      *)
(* ingestion loop and similarity engine (english_nlp_processor.py), the    *)
(* batch driver (main.py) and the script that writes the archive the       *)
(* driver reads (filter_english_warc.py).                                  *)
(*                                                                         *)
(* Scores and probabilities are held in hundredths (0.2 is 20, 1.0 is 100).*)
(* Python's None / SQL NULL is the string NULL.  Serialised JSON text is a *)
(* sequence of tokens.                                                     *)
(***************************************************************************)
EXTENDS Integers, Sequences, FiniteSets, TLC

VARIABLES
    webpages,         \* rows of table webpages
    seq,              \* sqlite_sequence entry of webpages (AUTOINCREMENT)
    sims,             \* rows of table webpage_similarities
    ret,              \* outcome of the last call made on the store
    pc,               \* position of main
    nread,            \* response/other records read from the archive so far
    record,           \* the record the loop of process_warc_file is at
    url,              \* local variable url of process_warc_file
    processed_pages,  \* processor.processed_pages
    processed_count,  \* local processed_count of process_warc_file
    error_count,      \* local error_count of process_warc_file
    webpage_ids,      \* main's dict webpage_ids
    cosine,           \* what the fitted vectorizer and cosine_similarity give
                      \* two texts of the batch
    sim_matrix,       \* sim_matrix of calculate_similarities, above the diagonal
    similarities,     \* main's list similarities
    filter_pc,        \* position of the script filter_english_warc.py
    nsample,          \* records the script has read from sample.warc.gz
    sample,           \* the record the loop of the script is at
    english_warc,     \* records the script has written to english.warc.gz
    pure              \* the last call of a function without side effects

storeVars == <<webpages, seq, sims>>
filterVars == <<filter_pc, nsample, sample, english_warc>>
mainVars == <<pc, nread, record, url, processed_pages, processed_count,
              error_count, webpage_ids, cosine, sim_matrix, similarities>>
runVarsButPc == <<nread, record, url, processed_pages, processed_count,
                  error_count, webpage_ids, cosine, sim_matrix, similarities,
                  filterVars, pure>>
runVars == <<mainVars, filterVars, pure>>
vars == <<webpages, seq, sims, ret, pc, nread, record, url, processed_pages,
          processed_count, error_count, webpage_ids, cosine, sim_matrix,
          similarities, filter_pc, nsample, sample, english_warc, pure>>

----------------------------------------------------------------------------
(* Bounds *)

MaxId == 3         \* add_webpage calls that succeed in one behaviour
MaxTriples == 2    \* triples in one bulk add_similarities call
MaxLimit == 2      \* limit argument of get_similar_webpages
MaxRecords == 3    \* records read from the archive by one run
MaxSample == 2     \* records read from sample.warc.gz by the script

NULL == "NULL"
Unbound == "UNBOUND"

----------------------------------------------------------------------------
(* json.dumps / json.loads on the two structured columns *)

RECURSIVE DumpsItems(_)
DumpsItems(l) ==
    IF l = <<>> THEN <<>>
    ELSE <<"\"", Head(l), "\"">> \o
         (IF Len(l) > 1 THEN <<",">> ELSE <<>>) \o DumpsItems(Tail(l))

\* json.dumps of a list of strings
DumpsList(l) == <<"[">> \o DumpsItems(l) \o <<"]">>

RECURSIVE DumpsMembers(_)
DumpsMembers(d) ==
    IF d = <<>> THEN <<>>
    ELSE <<"\"", Head(d)[1], "\"", ":">> \o DumpsList(Head(d)[2]) \o
         (IF Len(d) > 1 THEN <<",">> ELSE <<>>) \o DumpsMembers(Tail(d))

\* json.dumps of a dict label -> list of strings; a dict is the sequence of
\* its <<label, list>> items in insertion order
DumpsDict(d) == <<"{">> \o DumpsMembers(d) \o <<"}">>

\* One parsing step returns [val, next]: the value read at position i and the
\* position after it.
RECURSIVE LoadsItemsAt(_, _)
LoadsItemsAt(s, i) ==
    IF s[i] = "]" THEN [val |-> <<>>, next |-> i + 1]
    ELSE LET j == IF s[i + 3] = "," THEN i + 4 ELSE i + 3
             rest == LoadsItemsAt(s, j)
         IN  [val |-> <<s[i + 1]>> \o rest.val, next |-> rest.next]

\* s[i] is the opening bracket
LoadsListAt(s, i) == LoadsItemsAt(s, i + 1)

LoadsList(s) == LoadsListAt(s, 1).val

RECURSIVE LoadsMembersAt(_, _)
LoadsMembersAt(s, i) ==
    IF s[i] = "}" THEN <<>>
    ELSE LET l == LoadsListAt(s, i + 4)
             j == IF s[l.next] = "," THEN l.next + 1 ELSE l.next
         IN  <<(<<s[i + 1], l.val>>)>> \o LoadsMembersAt(s, j)

LoadsDict(s) == LoadsMembersAt(s, 2)

----------------------------------------------------------------------------
(* Pages handed to add_webpage *)

Urls == {"u1", "u2", "u3"}
Versions == {1, 2}

\* A page dict as process_warc_file builds it; the two versions of a url
\* differ in every field but the url.
MkPage(u, v) ==
    [url |-> u,
     title |-> IF v = 1 THEN "T" ELSE u,
     content_type |-> IF v = 1 THEN "html" ELSE "xml",
     language_score |-> IF v = 1 THEN 80 ELSE 99,
     cleaned_text |-> IF v = 1 THEN <<"text", "one">> ELSE <<"text", "two">>,
     summary |-> IF v = 1 THEN <<"text", "one">> ELSE <<"text">>,
     keywords |-> IF v = 1 THEN <<"one", ",">> ELSE <<>>,
     named_entities |-> IF v = 1 THEN << <<"ORG", <<"]", "x">> >>, <<"GPE", <<>> >> >>
                        ELSE <<>>]

PagesIn == {MkPage(u, v) : u \in Urls \cup {NULL}, v \in Versions}

\* the pages the similarity queries are run over
PagesSim == {MkPage(u, 1) : u \in Urls}

\* the pages stored next to bulk similarity writes
PagesBulk == {MkPage("u1", 1), MkPage(NULL, 1)}

----------------------------------------------------------------------------
(* The store *)

RowOf(id, p) ==
    [id |-> id,
     url |-> p.url,
     title |-> p.title,
     content_type |-> p.content_type,
     language_score |-> p.language_score,
     cleaned_text |-> p.cleaned_text,
     summary |-> p.summary,
     keywords |-> DumpsList(p.keywords),
     named_entities |-> DumpsDict(p.named_entities)]

\* a plain INSERT that leaves the row in conflict in place
InsertPageKeepingOld(rows, id, p) == rows \cup {RowOf(id, p)}

\* What the caller of the store sees of its last call: the operation, its
\* arguments (page, id, limit, threshold, triples), whether it raised, and
\* what it returned (id for add_webpage; found, the set holding the dict of
\* get_webpage_metadata, empty for None; list for get_similar_webpages).
NoCall ==
    [op |-> "none", raised |-> FALSE, page |-> MkPage(NULL, 1), id |-> 0,
     limit |-> 0, threshold |-> 0, triples |-> <<>>, found |-> {},
     list |-> <<>>]

\* INSERT OR REPLACE INTO webpages: the rows in conflict on UNIQUE(url) are
\* deleted and a new row is inserted under the next AUTOINCREMENT id.
InsertOrReplacePage(rows, id, p) ==
    {r \in rows : r.url # p.url} \cup {RowOf(id, p)}

\* url TEXT UNIQUE NOT NULL: REPLACE falls back to ABORT on a NULL url
AddWebpageFails(p) == p.url = NULL

\* an upsert in place: the row of a stored url keeps its id, which the call
\* returns
add_webpageKeepingId(p) ==
    /\ IF AddWebpageFails(p)
       THEN /\ UNCHANGED <<webpages, seq>>
            /\ ret' = [NoCall EXCEPT !.op = "add_webpage", !.raised = TRUE,
                                     !.page = p]
       ELSE IF \E r \in webpages : r.url = p.url
       THEN LET old == CHOOSE r \in webpages : r.url = p.url
            IN  /\ webpages' = (webpages \ {old}) \cup {RowOf(old.id, p)}
                /\ seq' = seq
                /\ ret' = [NoCall EXCEPT !.op = "add_webpage", !.page = p,
                                         !.id = old.id]
       ELSE /\ webpages' = InsertOrReplacePage(webpages, seq + 1, p)
            /\ seq' = seq + 1
            /\ ret' = [NoCall EXCEPT !.op = "add_webpage", !.page = p,
                                     !.id = seq + 1]
    /\ UNCHANGED sims

add_webpage(p) ==
    /\ IF AddWebpageFails(p)
       THEN /\ UNCHANGED <<webpages, seq>>
            /\ ret' = [NoCall EXCEPT !.op = "add_webpage", !.raised = TRUE,
                                     !.page = p]
       ELSE /\ webpages' = InsertOrReplacePage(webpages, seq + 1, p)
            /\ seq' = seq + 1
            /\ ret' = [NoCall EXCEPT !.op = "add_webpage", !.page = p,
                                     !.id = seq + 1]
    /\ UNCHANGED sims

AddWebpage ==
    \E p \in PagesIn : seq < MaxId /\ add_webpage(p) /\ UNCHANGED runVars

AddWebpageSim ==
    \E p \in PagesSim : seq < MaxId /\ add_webpage(p) /\ UNCHANGED runVars

AddWebpageBulk ==
    \E p \in PagesBulk : seq < MaxId /\ add_webpage(p) /\ UNCHANGED runVars

\* the dict built with the summary read from the wrong column and the
\* keywords column never parsed
MetadataOfMisread(row) ==
    [id |-> row.id,
     url |-> row.url,
     title |-> row.title,
     content_type |-> row.content_type,
     language_score |-> row.language_score,
     summary |-> row.cleaned_text,
     keywords |-> <<>>,
     named_entities |-> IF row.named_entities # <<>>
                        THEN LoadsDict(row.named_entities) ELSE <<>>]

MetadataOf(row) ==
    [id |-> row.id,
     url |-> row.url,
     title |-> row.title,
     content_type |-> row.content_type,
     language_score |-> row.language_score,
     summary |-> row.summary,
     keywords |-> IF row.keywords # <<>> THEN LoadsList(row.keywords) ELSE <<>>,
     named_entities |-> IF row.named_entities # <<>>
                        THEN LoadsDict(row.named_entities) ELSE <<>>]

get_webpage_metadata(id) ==
    /\ ret' = [NoCall EXCEPT !.op = "get_webpage_metadata", !.id = id,
                  !.found = {MetadataOf(r) : r \in {w \in webpages : w.id = id}}]
    /\ UNCHANGED storeVars

GetWebpageMetadata ==
    \E id \in 1..(MaxId + 1) : get_webpage_metadata(id) /\ UNCHANGED runVars

----------------------------------------------------------------------------
(* Similarity edges *)

ScoresIn == {20, 90}
Thresholds == {20, 50}

\* A triple with two bindings only: executemany raises ProgrammingError on it
Malformed == <<1, 2>>

\* the ordered id pairs the single-edge writes name: a pair in both
\* orientations, a second neighbour of page 1 and a pair of equal ids
EdgePairs == {<<1, 2>>, <<2, 1>>, <<1, 3>>, <<1, 1>>}
QueryIds == {1, 2, 3}

TriplesIn == {<<e[1], e[2], s>> : e \in EdgePairs, s \in ScoresIn}

BulkPairs == {<<1, 2>>, <<2, 1>>}

TriplesBulk ==
    {<<e[1], e[2], s>> : e \in BulkPairs, s \in ScoresIn} \cup {Malformed}

SeqsUpTo(S, n) == UNION {[1..k -> S] : k \in 0..n}

\* INSERT OR IGNORE: the row in conflict is kept and the new one dropped
InsertEdgeOrIgnore(rows, t) ==
    IF \E r \in rows : r.webpage1_id = t[1] /\ r.webpage2_id = t[2]
    THEN rows
    ELSE rows \cup {[webpage1_id |-> t[1], webpage2_id |-> t[2],
                     similarity_score |-> t[3]]}

\* INSERT OR REPLACE INTO webpage_similarities: the row in conflict on
\* UNIQUE(webpage1_id, webpage2_id) is deleted, the new one inserted.
InsertOrReplaceEdge(rows, t) ==
    {r \in rows : ~(r.webpage1_id = t[1] /\ r.webpage2_id = t[2])} \cup
    {[webpage1_id |-> t[1], webpage2_id |-> t[2], similarity_score |-> t[3]]}

\* executemany: the statement runs once per triple, in order, inside the
\* transaction; it stops at the first triple it cannot bind.
RECURSIVE ExecuteMany(_, _)
ExecuteMany(rows, ts) ==
    IF ts = <<>> THEN [rows |-> rows, raised |-> FALSE]
    ELSE IF Len(Head(ts)) # 3 THEN [rows |-> rows, raised |-> TRUE]
    ELSE ExecuteMany(InsertOrReplaceEdge(rows, Head(ts)), Tail(ts))

\* the rows executemany wrote before it raised are kept
SimilaritiesAfterNoRollback(rows, ts) == ExecuteMany(rows, ts).rows

\* conn.commit() when executemany returns; the exception leaves the with
\* block and the connection rolls the transaction back.
SimilaritiesAfter(rows, ts) ==
    LET r == ExecuteMany(rows, ts)
    IN  IF r.raised THEN rows ELSE r.rows

add_similarities(ts) ==
    /\ sims' = SimilaritiesAfter(sims, ts)
    /\ ret' = [NoCall EXCEPT !.op = "add_similarities", !.triples = ts,
                             !.raised = ExecuteMany(sims, ts).raised]
    /\ UNCHANGED <<webpages, seq>>

\* calls that write one edge
AddSimilarities ==
    \E t \in TriplesIn : add_similarities(<<t>>) /\ UNCHANGED runVars

\* bulk calls, some of which hold a triple that cannot be bound
AddSimilaritiesBulk ==
    \E ts \in SeqsUpTo(TriplesBulk, MaxTriples) :
        add_similarities(ts) /\ UNCHANGED runVars

\* the join on the first column position only, with no threshold
JoinRowsFirstColumn(webpage_id, threshold) ==
    {<<w, s>> \in webpages \X sims :
        /\ s.webpage1_id = w.id /\ s.webpage2_id = webpage_id
        /\ w.id # webpage_id}

\* The rows of the join: a page w and an edge s that links w to webpage_id in
\* either column position, w not being webpage_id, at or above the threshold.
JoinRows(webpage_id, threshold) ==
    {<<w, s>> \in webpages \X sims :
        /\ \/ s.webpage1_id = w.id /\ s.webpage2_id = webpage_id
           \/ s.webpage2_id = w.id /\ s.webpage1_id = webpage_id
        /\ w.id # webpage_id
        /\ s.similarity_score >= threshold}

Min(a, b) == IF a <= b THEN a ELSE b

\* ORDER BY s.similarity_score DESC LIMIT limit: the order of rows of equal
\* score is the engine's choice, so every such ordering is an outcome.
OrderedLimited(J, limit) ==
    LET k == Min(limit, Cardinality(J))
    IN  {f \in [1..k -> J] :
            /\ \A i, j \in 1..k : i < j =>
                  /\ f[i] # f[j]
                  /\ f[i][2].similarity_score >= f[j][2].similarity_score
            /\ \A x \in J : (\A i \in 1..k : f[i] # x) =>
                  \A i \in 1..k :
                      f[i][2].similarity_score >= x[2].similarity_score}

SimilarDict(w, s) ==
    [id |-> w.id,
     url |-> w.url,
     title |-> w.title,
     content_type |-> w.content_type,
     cleaned_text |-> w.cleaned_text,
     summary |-> w.summary,
     keywords |-> IF w.keywords # <<>> THEN LoadsList(w.keywords) ELSE <<>>,
     named_entities |-> IF w.named_entities # <<>>
                        THEN LoadsDict(w.named_entities) ELSE <<>>,
     similarity |-> s.similarity_score]

get_similar_webpages(webpage_id, limit, threshold) ==
    /\ \E f \in OrderedLimited(JoinRows(webpage_id, threshold), limit) :
          ret' = [NoCall EXCEPT
                     !.op = "get_similar_webpages", !.id = webpage_id,
                     !.limit = limit, !.threshold = threshold,
                     !.list = [i \in DOMAIN f |-> SimilarDict(f[i][1], f[i][2])]]
    /\ UNCHANGED storeVars

GetSimilarWebpages ==
    \E id \in QueryIds, limit \in 0..MaxLimit, threshold \in Thresholds :
        get_similar_webpages(id, limit, threshold) /\ UNCHANGED runVars

----------------------------------------------------------------------------
(* The feature extractor, on texts held as sequences of tokens *)

TextA == <<"The", "cat", "sat", ".", "A", "cat", "ran", "!",
           "See", "http://x.org", ".", "The", "end", ".">>
TextB == <<"Paris", "is", "big", ".", "Paris", "is", "old", ".">>
TextC == <<"cat", "ran", "far", ".">>

Lower(w) ==
    CASE w = "The" -> "the" [] w = "A" -> "a" [] w = "See" -> "see"
      [] w = "Paris" -> "paris" [] OTHER -> w

IsUrlToken(w) == w \in {"http://x.org"}
IsWordToken(w) == w \notin {".", "!"}
stop_words == {"the", "a", "is"}

\* lowercase, strip urls, strip what is neither word character nor space,
\* collapse whitespace
clean_text(text) ==
    LET lowered == [i \in DOMAIN text |-> Lower(text[i])]
        KeepToken(w) == ~IsUrlToken(w) /\ IsWordToken(w)
    IN  SelectSeq(lowered, KeepToken)

Count(w, ws) == Cardinality({i \in DOMAIN ws : ws[i] = w})
FirstAt(w, ws) == CHOOSE i \in DOMAIN ws : ws[i] = w /\ \A j \in 1..(i - 1) : ws[j] # w

RECURSIVE MostCommonLastMet(_, _, _)
\* the words by count, those of equal count in the order they were last met
MostCommonLastMet(ws, left, k) ==
    IF k = 0 \/ left = {} THEN <<>>
    ELSE LET w == CHOOSE x \in left : \A y \in left :
                      \/ Count(x, ws) > Count(y, ws)
                      \/ Count(x, ws) = Count(y, ws) /\ FirstAt(x, ws) >= FirstAt(y, ws)
         IN  <<w>> \o MostCommonLastMet(ws, left \ {w}, k - 1)

RECURSIVE MostCommon(_, _, _)
\* Counter(ws).most_common(k) over the words of the set left: by count,
\* highest first, words of equal count in the order they were first met
MostCommon(ws, left, k) ==
    IF k = 0 \/ left = {} THEN <<>>
    ELSE LET w == CHOOSE x \in left : \A y \in left :
                      \/ Count(x, ws) > Count(y, ws)
                      \/ Count(x, ws) = Count(y, ws) /\ FirstAt(x, ws) <= FirstAt(y, ws)
         IN  <<w>> \o MostCommon(ws, left \ {w}, k - 1)

TopK == 10

\* str.isalnum
IsAlnum(w) == w \notin {".", "!", "http://x.org", "a_b"}

extract_keywords(text, top_k) ==
    LET IsKeyword(w) == IsAlnum(w) /\ w \notin stop_words
        words == SelectSeq(text, IsKeyword)
    IN  MostCommon(words, {words[i] : i \in DOMAIN words}, top_k)

RECURSIVE Sentences(_, _)
\* sent_tokenize: a sentence ends with its closing punctuation token; cur is
\* the sentence being read
Sentences(ws, cur) ==
    IF ws = <<>> THEN (IF cur = <<>> THEN <<>> ELSE <<cur>>)
    ELSE IF IsWordToken(Head(ws)) THEN Sentences(Tail(ws), Append(cur, Head(ws)))
    ELSE <<Append(cur, Head(ws))>> \o Sentences(Tail(ws), <<>>)

RECURSIVE Join(_)
Join(ss) == IF ss = <<>> THEN <<>> ELSE Head(ss) \o Join(Tail(ss))

MaxSentences == 3

create_summary(text, max_sentences) ==
    LET sentences == Sentences(text, <<>>)
    IN  Join(SubSeq(sentences, 1, Min(max_sentences, Len(sentences))))

\* the label the recognizer gives a token; NULL for a token that is no entity
EntityLabel(w) ==
    CASE w \in {"paris", "Paris"} -> "GPE" [] w \in {"cat"} -> "ORG" [] OTHER -> NULL

RECURSIVE AddEntity(_, _, _)
\* entities[label].append(text) unless it is there, labels in insertion order
AddEntity(entities, label, text) ==
    IF entities = <<>> THEN << <<label, <<text>> >> >>
    ELSE IF Head(entities)[1] = label
         THEN <<(<<label, IF \E i \in DOMAIN Head(entities)[2] : Head(entities)[2][i] = text
                         THEN Head(entities)[2]
                         ELSE Append(Head(entities)[2], text)>>)>> \o Tail(entities)
         ELSE <<Head(entities)>> \o AddEntity(Tail(entities), label, text)

RECURSIVE EntitiesFrom(_, _)
EntitiesFrom(ws, entities) ==
    IF ws = <<>> THEN entities
    ELSE EntitiesFrom(Tail(ws),
             IF EntityLabel(Head(ws)) = NULL THEN entities
             ELSE AddEntity(entities, EntityLabel(Head(ws)), Head(ws)))

extract_entities(text) == EntitiesFrom(text, <<>>)

----------------------------------------------------------------------------
(* Records of the archive *)

\* What a record's body gives the two parsers: whether the XML parse finds an
\* element, comes out empty or raises, whether the HTML parse raises, and the
\* text (with its length in characters once stripped) and title extracted.
ContentsIn ==
    {[xml |-> "element", html |-> "ok", text |-> TextA, title |-> "T", length |-> 100],
     [xml |-> "empty", html |-> "ok", text |-> TextB, title |-> "", length |-> 150],
     [xml |-> "error", html |-> "ok", text |-> TextC, title |-> "T", length |-> 150],
     [xml |-> "error", html |-> "ok", text |-> TextB, title |-> "T", length |-> 99],
     [xml |-> "error", html |-> "error", text |-> TextB, title |-> "T", length |-> 150]}

DetectorError == <<[lang |-> "error", prob |-> 0]>>

\* What langdetect.detect_langs gives for the record's text
LangsIn ==
    {<<[lang |-> "en", prob |-> 80]>>,
     <<[lang |-> "en", prob |-> 79], [lang |-> "fr", prob |-> 21]>>,
     <<[lang |-> "fr", prob |-> 90], [lang |-> "en", prob |-> 10]>>,
     <<[lang |-> "fr", prob |-> 99]>>,
     DetectorError}

RunUrls == {"u1", "u2"}

NoRecord ==
    [rec_type |-> "none", uri |-> NULL, fault |-> "none",
     content |-> [xml |-> "error", html |-> "error", text |-> TextB,
                  title |-> "T", length |-> 150],
     langs |-> DetectorError]

\* the records of an archive: those read without error, of every body and
\* language; those whose url or body cannot be read; those of every body,
\* English at 0.8, whose features cannot be extracted; one that is no
\* response.  fault is the statement of the loop body that raises, if one does
RecordsIn ==
    [rec_type : {"response"}, uri : RunUrls \cup {NULL}, fault : {"none"},
     content : ContentsIn, langs : LangsIn]
    \cup [rec_type : {"response"}, uri : RunUrls \cup {NULL},
          fault : {"url", "content"}, content : {NoRecord.content},
          langs : {DetectorError}]
    \cup [rec_type : {"response"}, uri : RunUrls \cup {NULL},
          fault : {"features"}, content : ContentsIn,
          langs : {<<[lang |-> "en", prob |-> 80]>>}]
    \cup {[NoRecord EXCEPT !.rec_type = "request"]}

\* the function with the HTML parse tried first
parse_contentHtmlFirst(content) ==
    IF content.html = "ok"
    THEN [text |-> content.text, length |-> content.length,
          title |-> content.title, content_type |-> "html"]
    ELSE IF content.xml = "element"
    THEN [text |-> content.text, length |-> content.length,
          title |-> content.title, content_type |-> "xml"]
    ELSE [text |-> <<>>, length |-> 0, title |-> "", content_type |-> "unknown"]

\* the parser handing back the text of a body that no parse succeeded on
parse_contentKeepsText(content) ==
    [text |-> content.text, length |-> content.length, title |-> content.title,
     content_type |-> IF content.xml = "element" THEN "xml"
                      ELSE IF content.html = "ok" THEN "html" ELSE "unknown"]

parse_content(content) ==
    IF content.xml = "element"
    THEN [text |-> content.text, length |-> content.length,
          title |-> content.title, content_type |-> "xml"]
    ELSE IF content.html = "ok"
    THEN [text |-> content.text, length |-> content.length,
          title |-> content.title, content_type |-> "html"]
    ELSE [text |-> <<>>, length |-> 0, title |-> "", content_type |-> "unknown"]

\* A document as the two parsers read it.  xml and html say how each parse
\* ends; xml_text is the text of the XML tree; article, main and body are the
\* first elements of those names in the HTML tree, each a sequence of parts
\* under the tag that holds them.
NoElement == [present |-> FALSE, parts |-> <<>>]
ElementOf(parts) == [present |-> TRUE, parts |-> parts]

DocsIn ==
    [xml : {"element", "empty", "error"}, html : {"ok", "error"},
     xml_text : {TextA}, title : {"T"},
     article : {NoElement, ElementOf(<<>>),
                ElementOf(<<[tag |-> "p", words |-> TextC],
                            [tag |-> "aside", words |-> <<"ad">>]>>)},
     main : {NoElement, ElementOf(<<[tag |-> "p", words |-> <<"main", "text">>]>>)},
     body : {NoElement,
             ElementOf(<<[tag |-> "nav", words |-> <<"menu">>],
                         [tag |-> "p", words |-> TextB],
                         [tag |-> "script", words |-> <<"x">>]>>)}]

NoDoc ==
    [xml |-> "error", html |-> "error", xml_text |-> TextA, title |-> "T",
     article |-> NoElement, main |-> NoElement, body |-> NoElement]

\* the elements decomposed before the text is taken
NonContentTags == {"script", "style", "nav", "footer", "header", "aside"}

\* get_text of an element once the non-content elements are decomposed
get_text(element) ==
    LET IsContent(part) == part.tag \notin NonContentTags
        kept == SelectSeq(element.parts, IsContent)
    IN  Join([i \in DOMAIN kept |-> kept[i].words])

\* soup.find('article') or soup.find('main') or soup.find('body'): an
\* element found is truthy even when it is empty
main_content(doc) ==
    IF doc.article.present THEN doc.article
    ELSE IF doc.main.present THEN doc.main
    ELSE doc.body

\* characters to a token, for the length of a text held as tokens
TokenChars == 25

\* what parse_content works from: the outcome of each parse and the text
\* and title of the tree that parse_content returns from
ContentOf(doc) ==
    LET text == IF doc.xml = "element" THEN doc.xml_text
                ELSE IF main_content(doc).present
                THEN get_text(main_content(doc))
                ELSE <<>>
    IN  [xml |-> doc.xml, html |-> doc.html, text |-> text,
         title |-> doc.title, length |-> TokenChars * Len(text)]

RECURSIVE FirstEnglish(_)
FirstEnglish(lang_scores) ==
    IF lang_scores = <<>> THEN [is_english |-> FALSE, lang_score |-> 0]
    ELSE IF Head(lang_scores).lang = "en"
         THEN [is_english |-> TRUE, lang_score |-> Head(lang_scores).prob]
         ELSE FirstEnglish(Tail(lang_scores))

\* the detector's first entry taken for English whatever its language
is_english_contentTopEntry(langs) ==
    IF langs = DetectorError THEN [is_english |-> FALSE, lang_score |-> 0]
    ELSE [is_english |-> TRUE, lang_score |-> Head(langs).prob]

is_english_content(langs) ==
    IF langs = DetectorError THEN [is_english |-> FALSE, lang_score |-> 0]
    ELSE FirstEnglish(langs)

MinTextLength == 100
MinLangScore == 80

\* the dict appended to processed_pages
PageOf(rec, parsed, lang_score) ==
    LET cleaned_text == clean_text(parsed.text)
    IN  [url |-> rec.uri,
         title |-> IF parsed.title # "" THEN parsed.title ELSE rec.uri,
         cleaned_text |-> cleaned_text,
         keywords |-> extract_keywords(cleaned_text, TopK),
         summary |-> create_summary(cleaned_text, MaxSentences),
         language_score |-> lang_score,
         content_type |-> parsed.content_type,
         named_entities |-> extract_entities(cleaned_text)]

----------------------------------------------------------------------------
(* main: the batch run *)

\* the failure to open caught like the failure of a record: it is counted
\* and the run goes on with no page
OpenArchiveCaught ==
    /\ pc = "start"
    /\ \E opened \in BOOLEAN :
          /\ pc' = IF opened THEN "loop" ELSE "save_pages"
          /\ error_count' = IF opened THEN error_count ELSE error_count + 1
    /\ UNCHANGED <<storeVars, ret, nread, record, url, processed_pages,
                   processed_count, webpage_ids, cosine,
                   sim_matrix, similarities, filterVars, pure>>

\* processor and db_manager are constructed (the tables exist from then on)
\* and process_warc_file opens the archive, or fails to.
OpenArchive ==
    /\ pc = "start"
    /\ \E opened \in BOOLEAN : pc' = IF opened THEN "loop" ELSE "failed"
    /\ UNCHANGED <<storeVars, ret, nread, record, url, processed_pages,
                   processed_count, error_count, webpage_ids, cosine,
                   sim_matrix, similarities, filterVars, pure>>

\* the except clause of the loop: it counts the error and logs url; reading
\* url before any round has bound it raises out of process_warc_file
RecordFails ==
    /\ error_count' = error_count + 1
    /\ pc' = IF url' = Unbound THEN "failed" ELSE "loop"
    /\ UNCHANGED <<processed_pages, processed_count>>

\* a skip counted as an error
RecordSkippedAsError ==
    /\ pc' = "loop"
    /\ error_count' = error_count + 1
    /\ UNCHANGED <<processed_pages, processed_count>>

RecordSkipped ==
    /\ pc' = "loop"
    /\ UNCHANGED <<processed_pages, processed_count, error_count>>

\* one round of the loop of process_warc_file
process_record(rec) ==
    /\ record' = rec
    /\ nread' = nread + 1
    /\ IF rec.rec_type # "response"
       THEN url' = url /\ RecordSkipped
       ELSE IF rec.fault = "url"
       THEN url' = url /\ RecordFails
       ELSE /\ url' = rec.uri
            /\ LET parsed == parse_content(rec.content)
                   english == is_english_content(rec.langs)
               IN  IF rec.fault = "content" THEN RecordFails
                   ELSE IF parsed.text = <<>> \/ parsed.length < MinTextLength
                   THEN RecordSkipped
                   ELSE IF ~english.is_english \/ english.lang_score < MinLangScore
                   THEN RecordSkipped
                   ELSE IF rec.fault = "features" THEN RecordFails
                   ELSE /\ processed_pages' =
                               Append(processed_pages,
                                      PageOf(rec, parsed, english.lang_score))
                        /\ processed_count' = processed_count + 1
                        /\ pc' = "loop"
                        /\ UNCHANGED error_count

ProcessRecord ==
    /\ pc = "loop"
    /\ nread < MaxRecords
    /\ \E rec \in RecordsIn : process_record(rec)
    /\ UNCHANGED <<storeVars, ret, webpage_ids, cosine, sim_matrix,
                   similarities, filterVars, pure>>

\* the archive is drained: process_warc_file logs its counts and returns,
\* and its locals record and url are gone
EndOfArchive ==
    /\ pc = "loop"
    /\ pc' = "save_pages"
    /\ record' = NoRecord
    /\ url' = Unbound
    /\ UNCHANGED <<storeVars, ret, nread, processed_pages, processed_count,
                   error_count, webpage_ids, cosine, sim_matrix, similarities,
                   filterVars, pure>>

\* one round of: for i, page in enumerate(processed_pages, 1):
\*                   webpage_ids[i] = db_manager.add_webpage(page)
SavePage ==
    /\ pc = "save_pages"
    /\ Len(webpage_ids) < Len(processed_pages)
    /\ add_webpage(processed_pages[Len(webpage_ids) + 1])
    /\ IF ret'.raised
       THEN pc' = "failed" /\ UNCHANGED webpage_ids
       ELSE pc' = pc /\ webpage_ids' = Append(webpage_ids, ret'.id)
    /\ UNCHANGED <<nread, record, url, processed_pages, processed_count,
                   error_count, cosine, sim_matrix, similarities, filterVars,
                   pure>>

\* the values cosine_similarity gives a pair of pages
CosineIn == {20, 90}
Floor == 20

PagePairs(n) == {<<i, j>> \in (1..n) \X (1..n) : i < j}

RECURSIVE EmitFromAtFloor(_, _, _, _)
\* the loops with the floor itself let through
EmitFromAtFloor(m, n, i, j) ==
    IF i > n THEN <<>>
    ELSE IF j > n THEN EmitFromAtFloor(m, n, i + 1, i + 2)
    ELSE (IF m[<<i, j>>] >= Floor THEN << <<i, j, m[<<i, j>>]>> >> ELSE <<>>)
         \o EmitFromAtFloor(m, n, i, j + 1)

RECURSIVE EmitFromShortRows(_, _, _, _)
\* the loops with every row stopped one column early
EmitFromShortRows(m, n, i, j) ==
    IF i > n THEN <<>>
    ELSE IF j > n - 1 THEN EmitFromShortRows(m, n, i + 1, i + 2)
    ELSE (IF m[<<i, j>>] > Floor THEN << <<i, j, m[<<i, j>>]>> >> ELSE <<>>)
         \o EmitFromShortRows(m, n, i, j + 1)

RECURSIVE EmitFrom(_, _, _, _)
\* the two nested loops, at row i and column j of n pages
EmitFrom(m, n, i, j) ==
    IF i > n THEN <<>>
    ELSE IF j > n THEN EmitFrom(m, n, i + 1, i + 2)
    ELSE (IF m[<<i, j>>] > Floor THEN << <<i, j, m[<<i, j>>]>> >> ELSE <<>>)
         \o EmitFrom(m, n, i, j + 1)

\* the list with the indices of the matrix itself, which count from 0
EmittedFromZero(m, n) ==
    LET e == IF n = 0 THEN <<>> ELSE EmitFrom(m, n, 1, 2)
    IN  [k \in DOMAIN e |-> <<e[k][1] - 1, e[k][2] - 1, e[k][3]>>]

\* the list calculate_similarities returns for the matrix m; the indices it
\* emits count from 1
Emitted(m, n) == IF n = 0 THEN <<>> ELSE EmitFrom(m, n, 1, 2)

\* the cosine of a text with itself
SelfCosine == 100

\* the two texts, or the one text twice, of each pair of pages of the batch
TextPairs(pages) ==
    {{pages[e[1]].cleaned_text, pages[e[2]].cleaned_text} :
         e \in PagePairs(Len(pages))}

\* what fitting the vectorizer on the batch may give: a similarity for
\* every two texts, whatever their places in the batch
CosinesOf(pages) ==
    {c \in [TextPairs(pages) -> CosineIn \cup {SelfCosine}] :
         \A tt \in TextPairs(pages) :
             (c[tt] = SelfCosine) <=> (Cardinality(tt) = 1)}

\* sim_matrix[i][j] for i < j
MatrixOf(pages, c) ==
    [e \in PagePairs(Len(pages)) |->
         c[{pages[e[1]].cleaned_text, pages[e[2]].cleaned_text}]]

\* the list calculate_similarities returns for the batch, given the cosines
calculate_similarities(pages, c) == Emitted(MatrixOf(pages, c), Len(pages))

\* calculate_similarities called with pages still to be saved
CalculateSimilaritiesEarly ==
    /\ pc = "save_pages"
    /\ \E c \in CosinesOf(processed_pages) :
          /\ cosine' = c
          /\ sim_matrix' = MatrixOf(processed_pages, c)
          /\ similarities' = calculate_similarities(processed_pages, c)
    /\ pc' = "save_similarities"
    /\ UNCHANGED <<storeVars, ret, nread, record, url, processed_pages,
                   processed_count, error_count, webpage_ids, filterVars,
                   pure>>

CalculateSimilarities ==
    /\ pc = "save_pages"
    /\ Len(webpage_ids) = Len(processed_pages)
    /\ \E c \in CosinesOf(processed_pages) :
          /\ cosine' = c
          /\ sim_matrix' = MatrixOf(processed_pages, c)
          /\ similarities' = calculate_similarities(processed_pages, c)
    /\ pc' = "save_similarities"
    /\ UNCHANGED <<storeVars, ret, nread, record, url, processed_pages,
                   processed_count, error_count, webpage_ids, filterVars,
                   pure>>

RECURSIVE MappedSimilaritiesFromZero(_, _)
\* the mapping over a webpage_ids whose keys count from 0
MappedSimilaritiesFromZero(ids, triples) ==
    IF triples = <<>> THEN <<>>
    ELSE LET t == Head(triples)
         IN  (IF t[1] + 1 \in DOMAIN ids /\ t[2] + 1 \in DOMAIN ids
              THEN << <<ids[t[1] + 1], ids[t[2] + 1], t[3]>> >> ELSE <<>>)
             \o MappedSimilaritiesFromZero(ids, Tail(triples))

RECURSIVE MappedSimilarities(_, _)
\* [(webpage_ids[i], webpage_ids[j], score) for i, j, score in similarities
\*  if i in webpage_ids and j in webpage_ids]
MappedSimilarities(ids, triples) ==
    IF triples = <<>> THEN <<>>
    ELSE LET t == Head(triples)
         IN  (IF t[1] \in DOMAIN ids /\ t[2] \in DOMAIN ids
              THEN << <<ids[t[1]], ids[t[2]], t[3]>> >> ELSE <<>>)
             \o MappedSimilarities(ids, Tail(triples))

SaveSimilarities ==
    /\ pc = "save_similarities"
    /\ add_similarities(MappedSimilarities(webpage_ids, similarities))
    /\ pc' = IF ret'.raised THEN "failed" ELSE "recommend"
    /\ UNCHANGED runVarsButPc

DefaultLimit == 5
DefaultThreshold == 50

\* the example recommendation for the first page, when there is one
Recommend ==
    /\ pc = "recommend"
    /\ IF processed_pages # <<>>
       THEN get_similar_webpages(webpage_ids[1], DefaultLimit, DefaultThreshold)
       ELSE UNCHANGED <<storeVars, ret>>
    /\ pc' = "done"
    /\ UNCHANGED runVarsButPc

----------------------------------------------------------------------------

(* filter_english_warc.py: the script that writes english.warc.gz *)

\* A text as looks_like_meaningful_english measures it: the length of the
\* text once whitespace is collapsed and stripped, its letters, its ASCII
\* letters, its vowels, its characters outside string.printable, its runs of
\* ASCII letters (the words) and the words found in COMMON_EN_STOPWORDS.
\* The characters of the words are the ASCII letters.
BigStats ==
    [length : {29999, 30000, 30001}, letters : {5999, 6000, 6001},
     ascii_letters : {5099, 5100, 5101}, vowels : {1499, 1500},
     non_printable : {4500, 4501}, words : {424, 425, 1700, 1701},
     stopword_hits : {4, 5, 16, 17}]

SmallStats ==
    [length : {0, 29, 30, 39}, letters : {0, 30}, ascii_letters : {0, 30},
     vowels : {0, 10}, non_printable : {0, 30}, words : {0, 1, 9, 10},
     stopword_hits : {0, 1}]

\* counts that some text has
Countable(t) ==
    /\ t.ascii_letters <= t.letters
    /\ t.vowels <= t.ascii_letters
    /\ t.non_printable >= t.letters - t.ascii_letters
    /\ t.non_printable + t.ascii_letters <= t.length
    /\ t.words <= t.ascii_letters
    /\ (t.words = 0) <=> (t.ascii_letters = 0)
    /\ t.words - 1 <= t.length - t.ascii_letters
    /\ t.stopword_hits <= t.words

StatsIn == BigStats \cup {t \in SmallStats : Countable(t)}

MinNormLength == 30
MinAsciiLetterRatio == 85
MinVowelRatio == 25
MinLetterDensity == 20
MaxNonPrintableRatio == 15
MinWords == 10
MinAvgLen == 3
MaxAvgLen == 12
MinStopwordRatio == 1

\* the function with the bound on unprintable characters made strict
looks_like_meaningful_englishStrict(t) ==
    LET total_chars == t.length
    IN  IF t.length = 0 \/ t.length < MinNormLength \/ t.letters = 0 THEN FALSE
        ELSE IF t.ascii_letters * 100 < MinAsciiLetterRatio * t.letters THEN FALSE
        ELSE IF t.vowels * 100 < MinVowelRatio * t.letters THEN FALSE
        ELSE IF t.letters * 100 < MinLetterDensity * total_chars THEN FALSE
        ELSE IF t.non_printable * 100 >= MaxNonPrintableRatio * total_chars THEN FALSE
        ELSE IF t.words < MinWords THEN FALSE
        ELSE IF t.ascii_letters < MinAvgLen * t.words
                \/ t.ascii_letters > MaxAvgLen * t.words THEN FALSE
        ELSE IF t.stopword_hits * 100 < MinStopwordRatio * t.words THEN FALSE
        ELSE TRUE

\* the early returns of the function in their order; a ratio a/b < r is
\* compared as a * 100 < r * b, and avg_len is ascii_letters / words
looks_like_meaningful_english(t) ==
    LET total_chars == t.length
    IN  IF t.length = 0 THEN FALSE
        ELSE IF t.length < MinNormLength THEN FALSE
        ELSE IF t.letters = 0 THEN FALSE
        ELSE IF t.ascii_letters * 100 < MinAsciiLetterRatio * t.letters THEN FALSE
        ELSE IF t.vowels * 100 < MinVowelRatio * t.letters THEN FALSE
        ELSE IF t.letters * 100 < MinLetterDensity * total_chars THEN FALSE
        ELSE IF t.non_printable * 100 > MaxNonPrintableRatio * total_chars THEN FALSE
        ELSE IF t.words < MinWords THEN FALSE
        ELSE IF t.ascii_letters < MinAvgLen * t.words
                \/ t.ascii_letters > MaxAvgLen * t.words THEN FALSE
        ELSE IF t.stopword_hits * 100 < MinStopwordRatio * t.words THEN FALSE
        ELSE TRUE

\* A body as the codecs see it: the compression its bytes are in, and the
\* bytes compressed.  The empty body is no stream of any kind.
EmptyBody == [coding |-> "empty", data |-> ""]

BodiesIn ==
    {[coding |-> c, data |-> "d1"] : c \in {"gzip", "deflate", "zlib", "plain"}}
    \cup {EmptyBody}

NoHeaders == [present |-> FALSE, content_encoding |-> NULL]

EncodingsIn ==
    {NULL, "", "gzip", "GZIP", "x-gzip", "deflate", "gzip, deflate", "br"}

\* the headers of the HTTP response, if the record has them
HeadersIn == {NoHeaders} \cup [present : {TRUE}, content_encoding : EncodingsIn]

LowerEncoding(e) == IF e = "GZIP" THEN "gzip" ELSE e
ContainsGzip(e) == e \in {"gzip", "x-gzip", "gzip, deflate"}
ContainsDeflate(e) == e \in {"deflate", "gzip, deflate"}

Returned_(bytes) == [raised |-> FALSE, bytes |-> bytes]
Raised_(bytes) == [raised |-> TRUE, bytes |-> bytes]

\* gzip.decompress: the members of a gzip stream, none for no bytes
gzip_decompress(b) ==
    IF b.coding = "gzip" THEN Returned_([coding |-> "plain", data |-> b.data])
    ELSE IF b.coding = "empty" THEN Returned_(b)
    ELSE Raised_(b)

\* zlib.decompress, of a raw deflate stream (wbits = -MAX_WBITS) or of a
\* zlib-wrapped one
zlib_decompress(b, raw) ==
    IF b.coding = (IF raw THEN "deflate" ELSE "zlib")
    THEN Returned_([coding |-> "plain", data |-> b.data])
    ELSE Raised_(b)

\* the function with no second attempt for a deflate body
decompress_http_body_if_neededRawOnly(body_bytes, http_headers) ==
    IF ~http_headers.present \/ http_headers.content_encoding \in {NULL, ""}
    THEN Returned_(body_bytes)
    ELSE LET encoding == LowerEncoding(http_headers.content_encoding)
             tried == IF ContainsGzip(encoding) THEN gzip_decompress(body_bytes)
                      ELSE IF ContainsDeflate(encoding)
                      THEN zlib_decompress(body_bytes, TRUE)
                      ELSE Returned_(body_bytes)
         IN  IF tried.raised THEN Returned_(body_bytes) ELSE tried

\* tried is the outcome of the try block, which the except clause turns
\* into a return of body_bytes when it is an exception
decompress_http_body_if_needed(body_bytes, http_headers) ==
    IF ~http_headers.present THEN Returned_(body_bytes)
    ELSE IF http_headers.content_encoding \in {NULL, ""}
    THEN Returned_(body_bytes)
    ELSE LET encoding == LowerEncoding(http_headers.content_encoding)
             tried ==
                 IF ContainsGzip(encoding) THEN gzip_decompress(body_bytes)
                 ELSE IF ContainsDeflate(encoding)
                 THEN IF zlib_decompress(body_bytes, TRUE).raised
                      THEN zlib_decompress(body_bytes, FALSE)
                      ELSE zlib_decompress(body_bytes, TRUE)
                 ELSE Returned_(body_bytes)
         IN  IF tried.raised THEN Returned_(body_bytes) ELSE tried

\* what the record's text, decoded and taken out of its markup, gives the
\* detector and the heuristic; an empty text has length 0
PassingStats ==
    [length |-> 39, letters |-> 30, ascii_letters |-> 30, vowels |-> 10,
     non_printable |-> 0, words |-> 10, stopword_hits |-> 1]
NoStats ==
    [length |-> 0, letters |-> 0, ascii_letters |-> 0, vowels |-> 0,
     non_printable |-> 0, words |-> 0, stopword_hits |-> 0]
EmptyText == [detect |-> "error", stats |-> NoStats]
\* bytes still compressed, decoded as they are
GarbageText ==
    [detect |-> "error",
     stats |-> [length |-> 39, letters |-> 30, ascii_letters |-> 0, vowels |-> 0,
                non_printable |-> 30, words |-> 0, stopword_hits |-> 0]]
FilterTexts ==
    [detect : {"en", "fr"},
     stats : {PassingStats, [PassingStats EXCEPT !.words = 9]}]
    \cup {[detect |-> "error", stats |-> PassingStats], EmptyText}

\* the HTTP headers of a record, if it has them
FilterHttpIn ==
    {[present |-> FALSE, content_type |-> NULL, content_encoding |-> NULL],
     [present |-> TRUE, content_type |-> "text/html", content_encoding |-> "gzip"],
     [present |-> TRUE, content_type |-> "image/png", content_encoding |-> NULL]}

\* the same records as process_warc_file takes them
SampleWarcs ==
    [rec_type : {"response"}, uri : {"u1"}, fault : {"none"},
     content : {c \in ContentsIn : c.xml = "element" \/ c.length < MinTextLength},
     langs : {l \in LangsIn : l[1].lang = "en"}]

NoSample ==
    [rec_type |-> "none", http |-> NoHeaders @@ [content_type |-> NULL],
     payload |-> EmptyBody, text |-> EmptyText, warc |-> NoRecord]

SamplesIn ==
    [rec_type : {"response"}, http : FilterHttpIn,
     payload : {b \in BodiesIn : b.coding \in {"plain", "gzip"}},
     text : FilterTexts, warc : SampleWarcs]
    \cup {[NoSample EXCEPT !.rec_type = "request"]}

\* ct_lower.startswith('text') or 'html' in ct_lower
IsTextual(content_type) == content_type \in {"text/html", "text/plain"}

\* body_bytes.decode('utf-8', errors='ignore'), through extract_text_from_html
\* when the content type says html
TextOf(body_bytes, smp) ==
    IF body_bytes.coding = "plain" THEN smp.text
    ELSE IF body_bytes.coding = "empty" THEN EmptyText
    ELSE GarbageText

\* the text the script measures in a record
FilterText(smp) ==
    TextOf(decompress_http_body_if_needed(smp.payload, smp.http).bytes, smp)

\* the test with the heuristic left out
RetainedOnLanguage(text) == text.detect = "en"

\* lang == 'en' and looks_like_meaningful_english(text)
Retained(text) ==
    text.detect = "en" /\ looks_like_meaningful_english(text.stats)

\* sample.warc.gz is opened for reading and english.warc.gz for writing
OpenSample ==
    /\ filter_pc = "start"
    /\ \E opened \in BOOLEAN : filter_pc' = IF opened THEN "loop" ELSE "failed"
    /\ UNCHANGED <<storeVars, ret, mainVars, nsample, sample, english_warc,
                   pure>>

\* one round of the loop of the script
filter_record(smp) ==
    /\ sample' = smp
    /\ nsample' = nsample + 1
    /\ LET content_type ==
               IF smp.http.present THEN smp.http.content_type ELSE NULL
           text == FilterText(smp)
       IN  IF smp.rec_type # "response" THEN UNCHANGED english_warc
           ELSE IF content_type # NULL /\ ~IsTextual(content_type)
           THEN UNCHANGED english_warc
           ELSE IF text.stats.length = 0 THEN UNCHANGED english_warc
           ELSE IF text.detect = "error" THEN UNCHANGED english_warc
           ELSE IF Retained(text)
           THEN english_warc' = Append(english_warc, smp)
           ELSE UNCHANGED english_warc

FilterRecord ==
    /\ filter_pc = "loop"
    /\ nsample < MaxSample
    /\ \E smp \in SamplesIn : filter_record(smp)
    /\ UNCHANGED <<storeVars, ret, mainVars, filter_pc, pure>>

\* sample.warc.gz is drained: both files are closed
CloseSample ==
    /\ filter_pc = "loop"
    /\ filter_pc' = "closed"
    /\ sample' = NoSample
    /\ UNCHANGED <<storeVars, ret, mainVars, nsample, english_warc, pure>>

\* main, run once the script is through: english.warc.gz is there to open
\* if the script wrote it
OpenFiltered ==
    /\ pc = "start"
    /\ filter_pc \in {"closed", "failed"}
    /\ pc' = IF filter_pc = "closed" THEN "loop" ELSE "failed"
    /\ UNCHANGED <<storeVars, ret, runVarsButPc>>

\* one round of the loop of process_warc_file over english.warc.gz
ProcessFiltered ==
    /\ pc = "loop"
    /\ nread < Len(english_warc)
    /\ process_record(english_warc[nread + 1].warc)
    /\ UNCHANGED <<storeVars, ret, webpage_ids, cosine, sim_matrix,
                   similarities, filterVars, pure>>

\* the loop left with records of english.warc.gz still unread
EndOfFilteredEarly == nread <= Len(english_warc) /\ EndOfArchive

EndOfFiltered == nread = Len(english_warc) /\ EndOfArchive

----------------------------------------------------------------------------
(* Calls of the functions without side effects: one call to a behaviour, *)
(* since no call leaves anything to the next                             *)

MaxTokens == 4     \* tokens of a text given to extract_keywords
MaxK == 3          \* top_k given to extract_keywords

Vocabulary == {"the", "cat", "dog", "a_b"}
KeywordTexts == SeqsUpTo(Vocabulary, MaxTokens)

NoPure ==
    [fn |-> "none",
     stats |-> NoStats,
     verdict |-> FALSE,
     body_bytes |-> EmptyBody, http_headers |-> NoHeaders,
     out |-> Returned_(EmptyBody),
     text |-> <<>>, top_k |-> 0, keywords |-> <<>>,
     doc |-> NoDoc, parsed |-> parse_content(ContentOf(NoDoc))]

LooksLikeMeaningfulEnglish ==
    /\ pure = NoPure
    /\ \E t \in StatsIn :
          pure' = [NoPure EXCEPT !.fn = "looks_like_meaningful_english",
                                 !.stats = t,
                                 !.verdict = looks_like_meaningful_english(t)]
    /\ UNCHANGED <<storeVars, ret, mainVars, filterVars>>

DecompressHttpBodyIfNeeded ==
    /\ pure = NoPure
    /\ \E b \in BodiesIn, h \in HeadersIn :
          pure' = [NoPure EXCEPT !.fn = "decompress_http_body_if_needed",
                                 !.body_bytes = b, !.http_headers = h,
                                 !.out = decompress_http_body_if_needed(b, h)]
    /\ UNCHANGED <<storeVars, ret, mainVars, filterVars>>

ParseContent ==
    /\ pure = NoPure
    /\ \E doc \in DocsIn :
          pure' = [NoPure EXCEPT !.fn = "parse_content", !.doc = doc,
                                 !.parsed = parse_content(ContentOf(doc))]
    /\ UNCHANGED <<storeVars, ret, mainVars, filterVars>>

ExtractKeywords ==
    /\ pure = NoPure
    /\ \E text \in KeywordTexts, k \in (0..MaxK) \cup {TopK} :
          pure' = [NoPure EXCEPT !.fn = "extract_keywords",
                                 !.text = text, !.top_k = k,
                                 !.keywords = extract_keywords(text, k)]
    /\ UNCHANGED <<storeVars, ret, mainVars, filterVars>>

Init ==
    /\ webpages = {}
    /\ seq = 0
    /\ sims = {}
    /\ ret = NoCall
    /\ pc = "start"
    /\ nread = 0
    /\ record = NoRecord
    /\ url = Unbound
    /\ processed_pages = <<>>
    /\ processed_count = 0
    /\ error_count = 0
    /\ webpage_ids = <<>>
    /\ cosine = <<>>
    /\ sim_matrix = <<>>
    /\ similarities = <<>>
    /\ filter_pc = "start"
    /\ nsample = 0
    /\ sample = NoSample
    /\ english_warc = <<>>
    /\ pure = NoPure

\* Pages: writes and reads of table webpages
Next == AddWebpage \/ GetWebpageMetadata

Spec == Init /\ [][Next]_vars

\* Edges: single-edge writes and neighbour queries over stored pages
NextSim == AddWebpageSim \/ AddSimilarities \/ GetSimilarWebpages

SpecSim == Init /\ [][NextSim]_vars

\* Bulk edge writes and page writes, failing ones included
NextBulk == AddWebpageBulk \/ AddSimilaritiesBulk

SpecBulk == Init /\ [][NextBulk]_vars

\* The functions without side effects, each on the inputs of its set
NextPure ==
    \/ LooksLikeMeaningfulEnglish \/ DecompressHttpBodyIfNeeded
    \/ ExtractKeywords \/ ParseContent

SpecPure == Init /\ [][NextPure]_vars

\* The script over sample.warc.gz, then main over the english.warc.gz it wrote
NextPipeline ==
    \/ OpenSample \/ FilterRecord \/ CloseSample
    \/ OpenFiltered \/ ProcessFiltered \/ EndOfFiltered \/ SavePage
    \/ CalculateSimilarities \/ SaveSimilarities \/ Recommend

SpecPipeline == Init /\ [][NextPipeline]_vars

\* the stores a run can start on: the empty one, and the one an earlier run
\* over the pages of u1 and u2 left (CREATE TABLE IF NOT EXISTS keeps the rows
\* and the AUTOINCREMENT sequence)
PriorStores ==
    {[webpages |-> {}, seq |-> 0, sims |-> {}],
     [webpages |-> {RowOf(1, MkPage("u1", 1)), RowOf(2, MkPage("u2", 1))},
      seq |-> 2,
      sims |-> {[webpage1_id |-> 1, webpage2_id |-> 2,
                 similarity_score |-> 90]}]}

\* the state after construction over one of those stores
InitRerun ==
    /\ \E s \in PriorStores :
          webpages = s.webpages /\ seq = s.seq /\ sims = s.sims
    /\ ret = NoCall
    /\ pc = "start"
    /\ nread = 0
    /\ record = NoRecord
    /\ url = Unbound
    /\ processed_pages = <<>>
    /\ processed_count = 0
    /\ error_count = 0
    /\ webpage_ids = <<>>
    /\ cosine = <<>>
    /\ sim_matrix = <<>>
    /\ similarities = <<>>
    /\ filter_pc = "start"
    /\ nsample = 0
    /\ sample = NoSample
    /\ english_warc = <<>>
    /\ pure = NoPure

\* One batch run of main over an archive, from an empty store
NextRun ==
    \/ OpenArchive \/ ProcessRecord \/ EndOfArchive \/ SavePage
    \/ CalculateSimilarities \/ SaveSimilarities \/ Recommend

SpecRun == Init /\ [][NextRun]_vars

\* the batch run over a store that an earlier run may have filled
SpecRerun == InitRerun /\ [][NextRun]_vars

----------------------------------------------------------------------------
(* Claims on the store *)

\* a step in which add_webpage stored a page (ret' describes that call)
PageStored == seq' # seq

\* C1: after any add_webpage calls the table holds exactly one row per url
\* inserted, carrying the field values of the latest call for that url (the
\* rows of the other urls are kept as they were), and re-inserting an
\* unchanged page leaves the row count unchanged.
C1_OneRowPerUrlLatestValues ==
    /\ [](\A r1, r2 \in webpages : r1.url = r2.url => r1 = r2)
    /\ [][PageStored =>
            LET p == ret'.page IN
            /\ Cardinality({r \in webpages' : r.url = p.url}) = 1
            /\ \A r \in webpages' : r.url = p.url => r = RowOf(r.id, p)
            /\ {r \in webpages' : r.url # p.url} = {r \in webpages : r.url # p.url}
            /\ (\E r \in webpages : r = RowOf(r.id, p)) =>
                   Cardinality(webpages') = Cardinality(webpages)]_vars

\* a stored url was stored again, next to another page
C1_Witness ==
    /\ ret.op = "add_webpage" /\ ~ret.raised
    /\ seq = 3 /\ Cardinality(webpages) = 2
    /\ \E r \in webpages : r.id = seq /\ r = RowOf(seq, ret.page)

\* C2: add_webpage for a url already stored returns the id that url's row had
\* before the call, and the row is still found under that id with the new
\* field values.
C2_ReplaceKeepsId ==
    [][PageStored =>
         \A r \in webpages : r.url = ret'.page.url =>
             /\ ret'.id = r.id
             /\ RowOf(r.id, ret'.page) \in webpages']_vars

\* C3: webpage_similarities never holds a row (a,b) together with a row (b,a)
\* and never a row with webpage1_id = webpage2_id.
C3_CanonicalEdges ==
    \A r1, r2 \in sims :
        /\ r1.webpage1_id # r1.webpage2_id
        /\ ~(r1.webpage1_id = r2.webpage2_id /\ r1.webpage2_id = r2.webpage1_id)

ResultOf(op) == ret.op = op /\ ~ret.raised

IsSimilarQuery == ResultOf("get_similar_webpages")
QId == ret.id
QLimit == ret.limit
QThreshold == ret.threshold

\* C5: the list get_similar_webpages returns is in non-increasing order of
\* similarity, every entry is at or above the threshold, there are at most
\* limit entries and none is the queried page.
C5_SimilarSortedBounded ==
    IsSimilarQuery =>
        /\ \A i, j \in DOMAIN ret.list :
               i < j => ret.list[i].similarity >= ret.list[j].similarity
        /\ \A i \in DOMAIN ret.list :
               /\ ret.list[i].similarity >= QThreshold
               /\ ret.list[i].id # QId
        /\ Len(ret.list) <= QLimit

\* a query cut by its limit that returned an entry
C5_Witness ==
    /\ IsSimilarQuery
    /\ QLimit = 1 /\ Len(ret.list) = 1 /\ QThreshold = 50
    /\ \E s \in sims : s.similarity_score < QThreshold
    /\ \E s1, s2 \in sims : s1 # s2 /\ s1.similarity_score >= QThreshold
                              /\ s2.similarity_score >= QThreshold

\* the stored pages linked to page q by an edge at or above the threshold, in
\* either column position, each with the score of the edge
Qualifying(q, threshold) ==
    {<<w.id, s.similarity_score>> : <<w, s>> \in
        {x \in webpages \X sims :
            /\ x[2].similarity_score >= threshold
            /\ x[1].id # q
            /\ <<x[2].webpage1_id, x[2].webpage2_id>> \in
                   {<<q, x[1].id>>, <<x[1].id, q>>}}}

Returned == {<<ret.list[i].id, ret.list[i].similarity>> : i \in DOMAIN ret.list}

\* C6: a stored page linked to the queried page by an edge at or above the
\* threshold, in either column, is returned with the score of the edge when
\* the limit is large enough, and when the limit cuts the list the entries
\* returned are those of the highest scores.
C6_SimilarSymmetricTopK ==
    IsSimilarQuery =>
        /\ Returned \subseteq Qualifying(QId, QThreshold)
        /\ QLimit >= Cardinality(sims) => Returned = Qualifying(QId, QThreshold)
        /\ \A x \in Qualifying(QId, QThreshold) \ Returned :
               /\ Len(ret.list) = QLimit
               /\ \A y \in Returned : y[2] >= x[2]

\* page 1 queried with limit 1 while pages 2 and 3 both qualify, page 3 by an
\* edge that holds the queried id in its first column
C6_Witness ==
    /\ IsSimilarQuery
    /\ QId = 1 /\ QLimit = 1
    /\ Cardinality(Qualifying(1, QThreshold)) = 2
    /\ \E x \in Qualifying(1, QThreshold) \ Returned : \A y \in Returned : y[2] > x[2]

\* the dict get_webpage_metadata is to return for page p stored under id
PageAsRead(id, p) ==
    [id |-> id, url |-> p.url, title |-> p.title, content_type |-> p.content_type,
     language_score |-> p.language_score, summary |-> p.summary,
     keywords |-> p.keywords, named_entities |-> p.named_entities]

\* C7: get_webpage_metadata called right after add_webpage(p) with the id it
\* returned yields p's url, title, content_type, language_score, summary,
\* keywords and named_entities; for an id that has no row it yields None;
\* it never changes the store.
C7_MetadataRoundTrip ==
    [][ret'.op = "get_webpage_metadata" =>
          /\ UNCHANGED storeVars
          /\ (ResultOf("add_webpage") /\ ret'.id = ret.id) =>
                 ret'.found = {PageAsRead(ret.id, ret.page)}
          /\ (\A r \in webpages : r.id # ret'.id) => ret'.found = {}]_vars

\* the page stored last was read back with keywords and entities
C7_Witness ==
    /\ ResultOf("get_webpage_metadata")
    /\ ret.id = seq
    /\ \E d \in ret.found : Len(d.keywords) = 2 /\ Len(d.named_entities) = 2

\* a call that cannot be carried out: a page without url, a list of triples
\* holding one that cannot be bound
CallFails ==
    \/ ret'.op = "add_webpage" /\ ret'.page.url = NULL
    \/ ret'.op = "add_similarities" /\
           \E i \in DOMAIN ret'.triples : Len(ret'.triples[i]) # 3

\* C8: a failing add_webpage or add_similarities raises, and leaves no row of
\* its own (no prefix of a bulk add_similarities) while every row written by
\* the earlier calls stays as it was.
C8_FailureRaisesAllOrNothing ==
    [][CallFails => ret'.raised /\ UNCHANGED storeVars]_vars

\* a bulk call failed on its second triple after pages and edges were stored
C8_Witness ==
    /\ ret.op = "add_similarities" /\ ret.raised
    /\ Len(ret.triples) = 2 /\ Len(ret.triples[1]) = 3
    /\ webpages # {} /\ sims # {}
    /\ \A r \in sims : <<r.webpage1_id, r.webpage2_id>> #
                            <<ret.triples[1][1], ret.triples[1][2]>>

----------------------------------------------------------------------------
(* Claims on the batch run *)

ScoreInRange(x) == Floor < x /\ x <= 100

\* C4: every similarity_score a run stores lies above 0.2 and at or below
\* 1.0, and calculate_similarities emits no triple of score 0.2 or less: a
\* pair at exactly 0.2 is dropped.
C4_StoredScoresAboveFloor ==
    /\ \A r \in sims : ScoreInRange(r.similarity_score)
    /\ \A k \in DOMAIN similarities : ScoreInRange(similarities[k][3])
    /\ \A e \in DOMAIN sim_matrix :
           (\E k \in DOMAIN similarities :
                <<similarities[k][1], similarities[k][2]>> = e)
               <=> sim_matrix[e] > Floor

\* a run stored an edge and dropped a pair whose similarity is exactly 0.2
C4_Witness ==
    /\ pc = "done"
    /\ sims # {}
    /\ \E e \in DOMAIN sim_matrix : sim_matrix[e] = Floor
    /\ Cardinality(sims) < Cardinality(DOMAIN sim_matrix)

\* a round of the loop in which a statement of the try block raised
RecordRaised ==
    /\ nread' = nread + 1
    /\ record'.rec_type = "response"
    /\ \/ record'.fault \in {"url", "content"}
       \/ /\ record'.fault = "features"
          /\ parse_content(record'.content).length >= MinTextLength
          /\ is_english_content(record'.langs).is_english
          /\ is_english_content(record'.langs).lang_score >= MinLangScore

\* C9: an exception raised while one response record is handled, at any
\* statement from the read of the url to the feature extraction, is caught:
\* the error count goes up by one, nothing is appended to processed_pages and
\* the loop goes on to the next record.
C9_RecordErrorIsolated ==
    [][RecordRaised =>
          /\ error_count' = error_count + 1
          /\ processed_pages' = processed_pages
          /\ pc' = "loop"]_vars

\* the id of the row now stored for the page at index i of the batch
StoredId(i) == {r.id : r \in {w \in webpages : w.url = processed_pages[i].url}}

\* C10: when a run that began on an empty store is through, the urls in
\* webpages are the urls of the pages of processed_pages, and the edges
\* stored are the triples calculate_similarities emitted, with the indices
\* replaced by the ids of the rows stored for those pages.
C10_StoreReflectsBatch ==
    pc = "done" =>
        /\ {r.url : r \in webpages} =
               {processed_pages[i].url : i \in DOMAIN processed_pages}
        /\ {<<r.webpage1_id, r.webpage2_id, r.similarity_score>> : r \in sims} =
               UNION {StoredId(similarities[k][1]) \X StoredId(similarities[k][2])
                          \X {similarities[k][3]} : k \in DOMAIN similarities}

\* a round of the loop that appended a page to processed_pages
PageAccumulated == Len(processed_pages') = Len(processed_pages) + 1

AtLeastMinLangScore(p) == p.language_score >= MinLangScore

\* C11: process_warc_file accumulates a page only if the first language the
\* detector ranks for its text is English with a probability of 0.8 or more,
\* 0.8 itself included; so every page accumulated and every page stored has a
\* language_score of 0.8 or more.
C11_EnglishAtLeastThreshold ==
    /\ [](/\ \A i \in DOMAIN processed_pages :
                AtLeastMinLangScore(processed_pages[i])
          /\ \A r \in webpages : AtLeastMinLangScore(r))
    /\ [][PageAccumulated =>
             /\ record'.langs[1].lang = "en"
             /\ record'.langs[1].prob >= MinLangScore
             /\ processed_pages'[Len(processed_pages')].language_score =
                    record'.langs[1].prob]_vars

\* a page whose probability of English is exactly 0.8 is accumulated, and
\* the record read after it, long enough but English at 0.79, is left out
C11_Witness ==
    /\ pc = "loop"
    /\ processed_pages # <<>>
    /\ processed_pages[Len(processed_pages)].language_score = MinLangScore
    /\ record.rec_type = "response" /\ record.fault = "none"
    /\ parse_content(record.content).length >= MinTextLength
    /\ record.langs[1] = [lang |-> "en", prob |-> MinLangScore - 1]
    /\ nread = Len(processed_pages) + 1

\* a round of the loop on a response record whose url and body are read
\* without error and whose extracted text is under 100 characters
ShortRecordRead ==
    /\ nread' = nread + 1
    /\ record'.rec_type = "response"
    /\ record'.fault \notin {"url", "content"}
    /\ parse_content(record'.content).length < 100

\* C14: a record whose extracted text is shorter than 100 characters, the
\* empty text of an 'unknown' parse result included, is skipped before the
\* language gate, whatever the detector would say, and is never accumulated;
\* so every page accumulated and every page stored has content_type xml or
\* html, never 'unknown'.
C14_ShortTextSkipped ==
    /\ [](/\ \A i \in DOMAIN processed_pages :
                processed_pages[i].content_type \in {"xml", "html"}
          /\ \A r \in webpages : r.content_type \in {"xml", "html"})
    /\ [][ShortRecordRead =>
             /\ processed_pages' = processed_pages
             /\ error_count' = error_count
             /\ pc' = "loop"]_vars

\* a record that neither parser could read, English at 0.8, has been read
\* and skipped, after a page was accumulated
C14_Witness ==
    /\ pc = "loop" /\ nread = 2
    /\ Len(processed_pages) = 1 /\ error_count = 0
    /\ record.rec_type = "response" /\ record.fault = "none"
    /\ parse_content(record.content).content_type = "unknown"
    /\ record.langs[1] = [lang |-> "en", prob |-> MinLangScore]

\* calculate_similarities has returned
SimilaritiesComputed == pc \in {"save_similarities", "recommend", "done"}

\* the cosine of the texts of pages i and j of the batch
CosineOfPages(i, j) ==
    cosine[{processed_pages[i].cleaned_text, processed_pages[j].cleaned_text}]

\* the unordered pairs of pages, with their scores, that triples stand for
EdgesOf(pages, triples) ==
    {<<{pages[triples[k][1]], pages[triples[k][2]]}, triples[k][3]>> :
         k \in DOMAIN triples}

\* C15: for a batch of n pages calculate_similarities emits exactly the
\* triples (i, j, score) with i < j whose cosine similarity exceeds 0.2:
\* each pair at most once, none with i = j or i > j, no qualifying pair left
\* out, nothing for the empty batch.  The result depends on the batch only:
\* the pages in any other order give the same unordered pairs of pages with
\* the same scores.
C15_ExactlyPairsAboveFloor ==
    SimilaritiesComputed =>
        LET n == Len(processed_pages)
        IN  /\ \A k \in DOMAIN similarities :
                  /\ similarities[k][1] \in 1..n /\ similarities[k][2] \in 1..n
                  /\ similarities[k][1] < similarities[k][2]
                  /\ similarities[k][3] =
                         CosineOfPages(similarities[k][1], similarities[k][2])
                  /\ similarities[k][3] > 20
            /\ \A k, l \in DOMAIN similarities :
                  k # l => {similarities[k][1], similarities[k][2]} #
                               {similarities[l][1], similarities[l][2]}
            /\ \A i, j \in 1..n :
                  (i < j /\ CosineOfPages(i, j) > 20) =>
                      \E k \in DOMAIN similarities :
                          similarities[k] = <<i, j, CosineOfPages(i, j)>>
            /\ (n = 0) => (similarities = <<>>)
            /\ \A order \in Permutations(1..n) :
                  LET permuted == [i \in 1..n |-> processed_pages[order[i]]]
                  IN  EdgesOf(permuted, calculate_similarities(permuted, cosine))
                          = EdgesOf(processed_pages, similarities)

\* a batch of three pages of three texts, of which one pair came out
\* at 0.2 or less and was dropped and the two others were emitted
C15_Witness ==
    /\ pc = "save_similarities"
    /\ Len(processed_pages) = 3
    /\ Len(similarities) = 2
    /\ \E i, j \in 1..3 : i < j /\ CosineOfPages(i, j) <= 20
    /\ \A i, j \in 1..3 :
          i # j => processed_pages[i].cleaned_text # processed_pages[j].cleaned_text

\* C17: the summary of every accumulated page is the first max_sentences
\* sentences, joined, of the text as parse_content extracted it, not of
\* cleaned_text.
C17_SummaryOfOriginalText ==
    [][PageAccumulated =>
          processed_pages'[Len(processed_pages')].summary =
              create_summary(parse_content(record'.content).text, MaxSentences)]_vars

\* a step of main that calls add_webpage, calculate_similarities or
\* add_similarities
AddWebpageStep == pc = "save_pages" /\ pc' \in {"save_pages", "failed"}
SimilarityStep == pc = "save_pages" /\ pc' = "save_similarities"
AddSimilaritiesStep == pc = "save_similarities" /\ pc' # pc

\* C19 as stated: the stages of a run come in the order Open, per-record
\* loop, Similarity-compute, Persist-pages, Persist-similarities, Close, so
\* calculate_similarities has returned when add_webpage is first called.
C19_SimilarityBeforePersistPages ==
    [][AddWebpageStep => SimilaritiesComputed]_vars

\* the place of a position of main in the order of its stages: Open, the
\* loop, Persist-pages, Similarity-compute and Persist-similarities, the
\* example query, Close; a run that failed is over
StageOf(p) ==
    CASE p = "start" -> 0 [] p = "loop" -> 1 [] p = "save_pages" -> 2
      [] p = "save_similarities" -> 3 [] p = "recommend" -> 4
      [] p = "done" -> 5 [] p = "failed" -> 6

\* C19, amended: the stages of a run come in the order Open, per-record
\* loop, Persist-pages, Similarity-compute (once), Persist-similarities,
\* Close: records are read in the loop only, add_webpage is called before
\* calculate_similarities, calculate_similarities after the last
\* add_webpage, edges are written after it, and no stage is re-entered
\* after a later one has started.
C19_StagesInOrder ==
    [][/\ StageOf(pc') >= StageOf(pc)
       /\ (nread' # nread \/ processed_pages' # processed_pages) => pc = "loop"
       /\ (webpages' # webpages \/ webpage_ids' # webpage_ids)
              => (AddWebpageStep /\ ~SimilaritiesComputed)
       /\ SimilarityStep => Len(webpage_ids) = Len(processed_pages)
       /\ similarities' # similarities => SimilarityStep
       /\ sims' # sims => (AddSimilaritiesStep /\ SimilaritiesComputed)]_vars

\* three pages were saved, then the similarities computed, then edges
\* written, and the run is through
C19_Witness ==
    /\ pc = "done"
    /\ Len(webpage_ids) = 3
    /\ similarities # <<>>
    /\ sims # {}

\* C20: every accumulated page has been persisted, its add_webpage call
\* having returned an id, before similarity is computed; add_similarities is
\* called only after that and after the similarities are computed, and it
\* is given every emitted triple with each index replaced by the id the
\* store assigned to the page at that index.
C20_PersistedBeforeSimilarity ==
    /\ [](SimilaritiesComputed => Len(webpage_ids) = Len(processed_pages))
    /\ [][/\ webpage_ids' # webpage_ids =>
                /\ AddWebpageStep
                /\ ret'.op = "add_webpage" /\ ~ret'.raised
                /\ ret'.page = processed_pages[Len(webpage_ids')]
                /\ webpage_ids' = Append(webpage_ids, ret'.id)
                /\ \E r \in webpages' :
                      r.id = ret'.id /\ r.url = ret'.page.url
          /\ AddSimilaritiesStep =>
                /\ Len(webpage_ids) = Len(processed_pages)
                /\ ret'.op = "add_similarities"
                /\ ret'.triples =
                       [k \in DOMAIN similarities |->
                            <<webpage_ids[similarities[k][1]],
                              webpage_ids[similarities[k][2]],
                              similarities[k][3]>>]
          /\ sims' # sims => AddSimilaritiesStep]_vars

\* add_similarities has just been given the two edges of a batch of three
\* saved pages, under the ids add_webpage returned
C20_Witness ==
    /\ pc = "recommend"
    /\ ret.op = "add_similarities" /\ ~ret.raised
    /\ Len(ret.triples) = 2
    /\ Len(webpage_ids) = 3
    /\ \A k \in DOMAIN ret.triples :
          \E r \in webpages : r.id = ret.triples[k][1]

----------------------------------------------------------------------------
(* Claims on the filters and the feature functions *)

\* the eight rules of the heuristic, each on its own
LongEnough(t) == t.length >= 30
MostlyAsciiLetters(t) == t.letters > 0 /\ t.ascii_letters * 100 >= 85 * t.letters
EnoughVowels(t) == t.letters > 0 /\ t.vowels * 100 >= 25 * t.letters
DenseInLetters(t) == t.length > 0 /\ t.letters * 100 >= 20 * t.length
FewNonPrintable(t) == t.length > 0 /\ t.non_printable * 100 <= 15 * t.length
EnoughTokens(t) == t.words >= 10
TokensOfWordLength(t) ==
    t.words > 0 /\ 3 * t.words <= t.ascii_letters /\ t.ascii_letters <= 12 * t.words
SomeStopwords(t) == t.words > 0 /\ t.stopword_hits * 100 >= t.words

EightRules(t) ==
    /\ LongEnough(t) /\ MostlyAsciiLetters(t) /\ EnoughVowels(t)
    /\ DenseInLetters(t) /\ FewNonPrintable(t) /\ EnoughTokens(t)
    /\ TokensOfWordLength(t) /\ SomeStopwords(t)

\* the detector's first language is English, at 0.8 or more
TopEnglish(langs) == langs[1].lang = "en" /\ langs[1].prob >= 80

\* C12: a record is retained only if it passes both gates.  Every record the
\* script writes to english.warc.gz passed the heuristic; every page main
\* accumulates from that file, and every page it stores, is of a record that
\* passed the heuristic in the script and the language filter in
\* process_warc_file; a record that fails one of the two is left out.
C12_BothGates ==
    /\ [](/\ \A k \in DOMAIN english_warc :
                /\ FilterText(english_warc[k]).detect = "en"
                /\ EightRules(FilterText(english_warc[k]).stats)
          /\ Len(processed_pages) <= nread /\ nread <= Len(english_warc)
          /\ \A r \in webpages : \E i \in DOMAIN processed_pages :
                r.url = processed_pages[i].url)
    /\ [][/\ PageAccumulated =>
                /\ record' = english_warc[nread'].warc
                /\ EightRules(FilterText(english_warc[nread']).stats)
                /\ TopEnglish(record'.langs)
          /\ (nsample' = nsample + 1 /\ ~EightRules(FilterText(sample').stats))
                => english_warc' = english_warc
          /\ (nread' = nread + 1 /\ ~TopEnglish(record'.langs))
                => processed_pages' = processed_pages]_vars

\* the script read two records and wrote both; main accumulated and stored
\* the one that is English at 0.8 and left the other out
C12_Witness ==
    /\ pc = "done"
    /\ nsample = 2 /\ Len(english_warc) = 2
    /\ Len(processed_pages) = 1
    /\ \E r \in webpages : r.url = english_warc[1].warc.uri
    /\ \E k \in DOMAIN english_warc : ~TopEnglish(english_warc[k].warc.langs)

\* C13: looks_like_meaningful_english returns true exactly when the eight
\* rules hold: normalized length >= 30, ASCII letters / letters >= 0.85,
\* vowels / letters >= 0.25, letters / length >= 0.20, non-printable / length
\* <= 0.15, at least 10 alphabetic tokens, average token length within
\* [3, 12], stopword tokens / tokens >= 0.01.  A text that breaks one rule
\* is rejected, and a value on its threshold is accepted.
C13_EightRulesExactly ==
    pure.fn = "looks_like_meaningful_english" =>
        /\ pure.verdict <=> EightRules(pure.stats)
        /\ \A Rule \in {"length", "ascii", "vowels", "density", "printable",
                        "tokens", "token_length", "stopwords"} :
              (/\ (Rule # "length") => LongEnough(pure.stats)
               /\ (Rule # "ascii") => MostlyAsciiLetters(pure.stats)
               /\ (Rule # "vowels") => EnoughVowels(pure.stats)
               /\ (Rule # "density") => DenseInLetters(pure.stats)
               /\ (Rule # "printable") => FewNonPrintable(pure.stats)
               /\ (Rule # "tokens") => EnoughTokens(pure.stats)
               /\ (Rule # "token_length") => TokensOfWordLength(pure.stats)
               /\ (Rule # "stopwords") => SomeStopwords(pure.stats)
               /\ ~EightRules(pure.stats))
                  => ~pure.verdict

\* a text with every ratio on its threshold (0.85, 0.25, 0.20, 0.15, average
\* token length 3, stopwords 0.01) is accepted
C13_Witness ==
    /\ pure.fn = "looks_like_meaningful_english"
    /\ pure.verdict
    /\ pure.stats.ascii_letters * 100 = 85 * pure.stats.letters
    /\ pure.stats.vowels * 100 = 25 * pure.stats.letters
    /\ pure.stats.letters * 100 = 20 * pure.stats.length
    /\ pure.stats.non_printable * 100 = 15 * pure.stats.length
    /\ pure.stats.ascii_letters = 3 * pure.stats.words
    /\ pure.stats.stopword_hits * 100 = pure.stats.words

\* how often the token w occurs in text, and where it occurs first
Occurrences(w, text) == Cardinality({p \in DOMAIN text : text[p] = w})
FirstOccurrence(w, text) ==
    CHOOSE p \in DOMAIN text : text[p] = w /\ \A q \in 1..(p - 1) : text[q] # w

\* an alphanumeric token that is no stopword
IsCandidate(w) == IsAlnum(w) /\ w \notin stop_words

\* C16: for every token sequence and every k >= 0, extract_keywords(text, k)
\* returns at most k items, without repeats, each an alphanumeric
\* non-stopword token occurring in text, by non-increasing frequency with
\* ties in the order of first occurrence; no such token left out of the list
\* is more frequent than one in it.
C16_KeywordsTopKByFrequency ==
    pure.fn = "extract_keywords" =>
        LET text == pure.text
            out == pure.keywords
        IN  /\ Len(out) <= pure.top_k
            /\ \A i, j \in DOMAIN out : i # j => out[i] # out[j]
            /\ \A i \in DOMAIN out :
                  /\ \E p \in DOMAIN text : text[p] = out[i]
                  /\ IsCandidate(out[i])
            /\ \A i, j \in DOMAIN out :
                  i < j =>
                      \/ Occurrences(out[i], text) > Occurrences(out[j], text)
                      \/ /\ Occurrences(out[i], text) = Occurrences(out[j], text)
                         /\ FirstOccurrence(out[i], text) < FirstOccurrence(out[j], text)
            /\ \A p \in DOMAIN text :
                  (IsCandidate(text[p]) /\ \A i \in DOMAIN out : out[i] # text[p])
                      => \A i \in DOMAIN out :
                             Occurrences(text[p], text) <= Occurrences(out[i], text)

\* of two tokens met once each the one met first is returned for k = 1; a
\* more frequent stopword and a token that is not alphanumeric are left out
C16_Witness ==
    /\ pure.fn = "extract_keywords"
    /\ pure.text = <<"the", "dog", "cat", "the">>
    /\ pure.top_k = 1
    /\ pure.keywords = <<"dog">>

\* what the named codec makes of the bytes, if it accepts them
Inflated(b, codec) ==
    IF b.coding = codec THEN {[coding |-> "plain", data |-> b.data]}
    ELSE IF codec = "gzip" /\ b.coding = "empty" THEN {b}
    ELSE {}

\* C18: decompress_http_body_if_needed never raises.  With no headers or no
\* Content-Encoding it returns the body unchanged; for gzip the gunzipped
\* bytes; for deflate the bytes inflated as raw deflate or, failing that, as
\* a zlib stream; for any other encoding the body unchanged; and whenever
\* decompression fails, the bytes it was given.
C18_DecompressNeverRaises ==
    pure.fn = "decompress_http_body_if_needed" =>
        LET body == pure.body_bytes
            e == pure.http_headers.content_encoding
            gzip == e \in {"gzip", "GZIP", "x-gzip", "gzip, deflate"}
            deflate == ~gzip /\ e = "deflate"
        IN  /\ ~pure.out.raised
            /\ (~pure.http_headers.present \/ e \in {NULL, ""})
                  => pure.out.bytes = body
            /\ (pure.http_headers.present /\ gzip) =>
                  pure.out.bytes \in
                      IF Inflated(body, "gzip") # {} THEN Inflated(body, "gzip")
                      ELSE {body}
            /\ (pure.http_headers.present /\ deflate) =>
                  pure.out.bytes \in
                      IF Inflated(body, "deflate") # {} THEN Inflated(body, "deflate")
                      ELSE IF Inflated(body, "zlib") # {} THEN Inflated(body, "zlib")
                      ELSE {body}
            /\ (pure.http_headers.present /\ e = "br") => pure.out.bytes = body

\* a zlib-wrapped body sent as deflate: the raw attempt fails and the second
\* attempt returns the bytes inflated
C18_Witness ==
    /\ pure.fn = "decompress_http_body_if_needed"
    /\ pure.http_headers.present
    /\ pure.http_headers.content_encoding = "deflate"
    /\ pure.body_bytes.coding = "zlib"
    /\ pure.out = [raised |-> FALSE,
                   bytes |-> [coding |-> "plain", data |-> pure.body_bytes.data]]

----------------------------------------------------------------------------
(* Claims on the stages of a run *)

\* a step that changes what calculate_similarities computes
SimilaritiesChange ==
    cosine' # cosine \/ sim_matrix' # sim_matrix \/ similarities' # similarities

\* C21: similarity computation is a barrier.  calculate_similarities is not
\* called while the loop has records of the archive still to read; it is
\* called once; and it works on all the pages of the run: none is
\* accumulated, and no record read, once it has been called.
C21_SimilarityIsBarrier ==
    /\ [](pc = "done" => SimilaritiesComputed)
    /\ [][/\ SimilarityStep =>
                /\ nread = Len(english_warc)
                /\ processed_pages' = processed_pages
                /\ similarities' =
                       calculate_similarities(processed_pages, cosine')
          /\ SimilaritiesChange => (SimilarityStep /\ ~SimilaritiesComputed)
          /\ SimilaritiesComputed =>
                /\ processed_pages' = processed_pages
                /\ nread' = nread]_vars

\* both records of the archive have been read and accumulated, and the
\* similarity of the two pages has then been computed
C21_Witness ==
    /\ pc = "save_similarities"
    /\ Len(english_warc) = 2 /\ nread = 2
    /\ Len(processed_pages) = 2
    /\ DOMAIN sim_matrix = {<<1, 2>>}

----------------------------------------------------------------------------
(* Claims on the parser and the gates of the loop *)

\* the text of the first of article, main and body that the document has,
\* without its script, style, nav, footer, header and aside parts
VisibleText(doc) ==
    LET first == IF doc.article.present THEN doc.article.parts
                 ELSE IF doc.main.present THEN doc.main.parts
                 ELSE doc.body.parts
        Shown(part) ==
            part.tag \notin {"script", "style", "nav", "footer", "header", "aside"}
        shown == SelectSeq(first, Shown)
    IN  Join([i \in DOMAIN shown |-> shown[i].words])

\* C22: parse_content never raises and follows its chain in order.  It
\* returns type xml exactly when the XML parse succeeds and finds an element;
\* otherwise type html when the HTML parse succeeds, with the text of the
\* first of article, main, body once script, style, nav, footer, header and
\* aside are removed; otherwise exactly ('', '', 'unknown').  The type is
\* always one of xml, html, unknown.
C22_ParseFallbackChain ==
    pure.fn = "parse_content" =>
        LET doc == pure.doc
            out == pure.parsed
        IN  /\ out.content_type \in {"xml", "html", "unknown"}
            /\ (out.content_type = "xml") <=> (doc.xml = "element")
            /\ (out.content_type = "html") <=>
                   (doc.xml # "element" /\ doc.html = "ok")
            /\ (out.content_type = "xml") =>
                   (out.text = doc.xml_text /\ out.title = doc.title)
            /\ (out.content_type = "html") =>
                   (out.text = VisibleText(doc) /\ out.title = doc.title)
            /\ (out.content_type = "unknown") =>
                   (out.text = <<>> /\ out.title = "")

\* the XML parse found no element and the document has no article: the
\* result is html with the text of main, not of body
C22_Witness ==
    /\ pure.fn = "parse_content"
    /\ pure.doc.xml = "empty" /\ pure.doc.html = "ok"
    /\ ~pure.doc.article.present
    /\ pure.doc.main.present /\ pure.doc.body.present
    /\ pure.parsed.content_type = "html"
    /\ pure.parsed.text = <<"main", "text">>

\* the detector raised, or ranked no English
NoEnglishEntry(langs) ==
    langs = DetectorError \/ \A k \in DOMAIN langs : langs[k].lang # "en"

\* a round of the loop on a response record, read without error, whose text
\* is long enough and on which the detector fails
DetectorFailed ==
    /\ nread' = nread + 1
    /\ record'.rec_type = "response"
    /\ record'.fault = "none"
    /\ parse_content(record'.content).length >= 100
    /\ NoEnglishEntry(record'.langs)

\* the same, on a record whose text is shorter than 100 characters
TooShort ==
    /\ nread' = nread + 1
    /\ record'.rec_type = "response"
    /\ record'.fault = "none"
    /\ parse_content(record'.content).length < 100

\* C23: a failure of the language detector, an exception or a result with
\* no English entry, is a filter negative and not an error: is_english_content
\* returns (False, 0.0), the record is skipped and not accumulated, the
\* error count stays as it is and the run goes on; the same for a record
\* skipped as too short.
C23_DetectorFailureIsNegative ==
    [][(DetectorFailed \/ TooShort) =>
          /\ DetectorFailed =>
                is_english_content(record'.langs) =
                    [is_english |-> FALSE, lang_score |-> 0]
          /\ processed_pages' = processed_pages
          /\ processed_count' = processed_count
          /\ error_count' = error_count
          /\ pc' = "loop"]_vars

\* after a page was accumulated, a record of 100 characters or more on
\* which the detector raised has been skipped, and no error is counted
C23_Witness ==
    /\ pc = "loop" /\ nread = 2
    /\ Len(processed_pages) = 1 /\ error_count = 0
    /\ record.rec_type = "response" /\ record.fault = "none"
    /\ parse_content(record.content).length >= 100
    /\ record.langs = DetectorError

----------------------------------------------------------------------------
(* Claims on the upsert of edges *)

PairOf(t) == <<t[1], t[2]>>
PairOfRow(r) == <<r.webpage1_id, r.webpage2_id>>

\* the call that has just returned wrote its triples
EdgesWritten == ret'.op = "add_similarities" /\ ~ret'.raised

\* the position of the last triple of ts that names the pair p
LastFor(ts, p) ==
    CHOOSE i \in DOMAIN ts :
        /\ PairOf(ts[i]) = p
        /\ \A k \in DOMAIN ts : PairOf(ts[k]) = p => k <= i

\* C24: add_similarities is an upsert keyed on the ordered pair
\* (webpage1_id, webpage2_id): the table never holds two rows for one ordered
\* pair; after a call each pair it names carries the score of the last triple
\* that names it, the other rows staying as they were; and the same list
\* applied a second time leaves the same edges.
C24_UpsertOnOrderedPair ==
    /\ [](\A r1, r2 \in sims : PairOfRow(r1) = PairOfRow(r2) => r1 = r2)
    /\ [][/\ EdgesWritten =>
                LET ts == ret'.triples
                    named == {PairOf(ts[i]) : i \in DOMAIN ts}
                IN  /\ \A p \in named :
                           \E r \in sims' :
                               /\ PairOfRow(r) = p
                               /\ r.similarity_score = ts[LastFor(ts, p)][3]
                    /\ {r \in sims' : PairOfRow(r) \notin named} =
                           {r \in sims : PairOfRow(r) \notin named}
          /\ (EdgesWritten /\ ret.op = "add_similarities" /\ ~ret.raised
                 /\ ret'.triples = ret.triples) => sims' = sims]_vars

\* one call named a stored pair twice with two scores: the pair has the
\* score of the second triple, beside the edge of the reverse orientation
C24_Witness ==
    /\ ret.op = "add_similarities" /\ ~ret.raised
    /\ Len(ret.triples) = 2
    /\ PairOf(ret.triples[1]) = <<1, 2>> /\ PairOf(ret.triples[2]) = <<1, 2>>
    /\ ret.triples[1][3] = 90 /\ ret.triples[2][3] = 20
    /\ [webpage1_id |-> 1, webpage2_id |-> 2, similarity_score |-> 20] \in sims
    /\ \E r \in sims : PairOfRow(r) = <<2, 1>>

----------------------------------------------------------------------------
(* Claims on the failure to open the archive *)

\* the run ended in process_warc_file before any record was read
OpenFailed == pc = "failed" /\ nread = 0

\* C25: an archive that cannot be opened is fatal: the step that opens it
\* either enters the loop or ends the run, in both cases with no error
\* counted (the handler of the loop is not reached) and the store untouched;
\* the ended run takes no further step, and it has written no page row and
\* no similarity edge.
C25_OpenFailureIsFatal ==
    /\ [][pc = "start" =>
             /\ pc' \in {"loop", "failed"}
             /\ error_count' = error_count
             /\ processed_pages' = processed_pages
             /\ UNCHANGED storeVars]_vars
    /\ [][pc = "failed" => pc' = "failed" /\ UNCHANGED storeVars]_vars
    /\ [](OpenFailed =>
             /\ webpages = {} /\ sims = {} /\ seq = 0
             /\ processed_pages = <<>> /\ webpage_ids = <<>>
             /\ error_count = 0)

\* the archive could not be opened: the run is over with an empty store
C25_Witness ==
    /\ OpenFailed
    /\ url = Unbound /\ record = NoRecord
    /\ webpages = {} /\ sims = {} /\ ret = NoCall

----------------------------------------------------------------------------
(* Claims on the ids of the edges *)

StoredIds == {w.id : w \in webpages}

\* C26: every row of webpage_similarities names, in webpage1_id and in
\* webpage2_id, the id of a row that webpages holds now.
C26_EdgesReferStoredPages ==
    \A r \in sims : r.webpage1_id \in StoredIds /\ r.webpage2_id \in StoredIds


\* the edges the step of add_similarities was handed
EdgesPassed == {ret'.triples[k] : k \in DOMAIN ret'.triples}

\* C27: every edge main hands to add_similarities has webpage1_id below
\* webpage2_id, on any batch and over any earlier store: the ids add_webpage
\* returned to the run grow with the index of the page, each one is above
\* every id handed out before it, and so the stored edges of batch runs hold
\* no self-edge and no pair in both orientations.
C27_EdgesInIdOrder ==
    /\ [][AddSimilaritiesStep => \A t \in EdgesPassed : t[1] < t[2]]_vars
    /\ [][seq' # seq =>
             /\ ret'.id = seq' /\ seq' > seq
             /\ \A r \in webpages : r.id < ret'.id
             /\ \A i \in DOMAIN webpage_ids : webpage_ids[i] < ret'.id]_vars
    /\ [](\A i, j \in DOMAIN webpage_ids :
             i < j => webpage_ids[i] < webpage_ids[j])
    /\ [](\A r1, r2 \in sims :
             /\ r1.webpage1_id # r1.webpage2_id
             /\ PairOfRow(r1) # <<r2.webpage2_id, r2.webpage1_id>>)

\* a run over the store of an earlier run stored three pages, the first and
\* the third of one url, and wrote the edges of all three pairs
C27_Witness ==
    /\ pc = "recommend" /\ ~ret.raised
    /\ [webpage1_id |-> 1, webpage2_id |-> 2, similarity_score |-> 90] \in sims
    /\ Len(processed_pages) = 3
    /\ processed_pages[1].url = processed_pages[3].url
    /\ webpage_ids = <<3, 4, 5>>
    /\ {PairOf(ret.triples[k]) : k \in DOMAIN ret.triples} =
           {<<3, 4>>, <<3, 5>>, <<4, 5>>}

----------------------------------------------------------------------------
(* Claims on the indices of the triples *)

\* the keys of webpage_ids
Keys == DOMAIN webpage_ids

\* C28: the indices calculate_similarities emits are keys of webpage_ids:
\* once the similarities are computed the keys are 1..n for the n pages of
\* the batch, both indices of every triple are among them and the filter of
\* main drops no triple; the id under key i belongs to the i-th page (a row
\* of that id is the row of that page, and the id has no row only when a
\* later page of the same url replaced it); and the edge written for a
\* triple carries the ids under its two indices.
C28_IndicesAreKeys ==
    /\ [](SimilaritiesComputed =>
             /\ Keys = 1..Len(processed_pages)
             /\ \A k \in DOMAIN similarities :
                   similarities[k][1] \in Keys /\ similarities[k][2] \in Keys
             /\ Len(MappedSimilarities(webpage_ids, similarities)) =
                   Len(similarities))
    /\ [](\A i \in Keys :
             /\ \A r \in webpages :
                   r.id = webpage_ids[i] =>
                       r = RowOf(webpage_ids[i], processed_pages[i])
             /\ (\A r \in webpages : r.id # webpage_ids[i]) =>
                   \E j \in Keys :
                       j > i /\ processed_pages[j].url = processed_pages[i].url)
    /\ [][AddSimilaritiesStep =>
             /\ Len(ret'.triples) = Len(similarities)
             /\ \A k \in DOMAIN similarities :
                   /\ ret'.triples[k][1] = webpage_ids[similarities[k][1]]
                   /\ ret'.triples[k][2] = webpage_ids[similarities[k][2]]
                   /\ ret'.triples[k][3] = similarities[k][3]]_vars

\* the one triple of a batch of two pages of two urls was written as the
\* edge between the rows of those two pages
C28_Witness ==
    /\ pc = "recommend"
    /\ Len(processed_pages) = 2
    /\ processed_pages[1].url # processed_pages[2].url
    /\ similarities = << <<1, 2, 90>> >>
    /\ sims = {[webpage1_id |-> webpage_ids[1], webpage2_id |-> webpage_ids[2],
                similarity_score |-> 90]}
    /\ \A i \in 1..2 : RowOf(webpage_ids[i], processed_pages[i]) \in webpages

====
